---- MODULE Spec2Model ----
(***************************************************************************)
(* The job queue of the Grok proofreader (src/app.py): the in-memory       *)
(* registry JOBS, the request handlers that run one at a time on the event *)
(* loop, and process_job, which runs on a worker thread and interleaves    *)
(* with the handlers statement by statement.                               *)
(*                                                                         *)
(* A handler is an async function without an await, so it is one step.     *)
(* A read handler is an operator of the state (its response) and a step    *)
(* that changes nothing. The collaborators (extract_text, call_grok,       *)
(* save_single_report, save_reports) return or raise; shutil.rmtree is     *)
(* taken to remove the whole directory; GROK_API_KEY is taken to be set.   *)
(***************************************************************************)
EXTENDS Integers, Sequences, FiniteSets, TLC

\* ------------------------------------------------------------------ bounds
\* Largest number of uploaded files in one submission.
MaxFiles == 2

\* ------------------------------------------------------------------ values
\* The uuids a submission can draw. Every handler and process_job touch only
\* the record and the directory of the id they are given, so one id is followed.
JobIds == {1}
\* An id no submission ever returned ("doesnotexist").
NeverIssued == {0}

\* Python's None and a value that is present.
None == [some |-> FALSE]
Some(v) == [some |-> TRUE, val |-> v]

\* bool(x) of an optional string: None and "" are falsy.
Truthy(x) == x.some /\ x.val # ""

\* Uploaded file names, as stem and extension.
FileNames ==
    { [stem |-> "a", ext |-> "docx"],
      [stem |-> "b", ext |-> "DOCX"],
      [stem |-> "n", ext |-> "txt"] }

\* The request bodies a caller sends: one to MaxFiles files, in upload order.
Uploads == UNION { [1..n -> FileNames] : n \in 1..MaxFiles }

ROLES == {"legal", "academic", "business", "creative", "mentor"}
DEFAULT_ROLE == "academic"
\* The role selectors a caller sends: the default and one that is no key of ROLES.
RoleInputs == {DEFAULT_ROLE, "bogus"}

\* str.lower() on an extension.
Lower(s) == IF s = "DOCX" THEN "docx" ELSE s

\* file.filename.lower().endswith(".docx")
IsDocx(name) == Lower(name.ext) = "docx"

\* The messages str(e) can give for an exception a collaborator raises; an
\* exception built without arguments has the empty message.
ExcMessages == {"", "boom"}
\* The message of the error raised on opening a path that does not exist.
MissingMsg == "No such file or directory"

\* An HTTPException(code, detail).
HTTPException(code, detail) == [code |-> code, detail |-> detail]

\* ------------------------------------------------------------------ state
VARIABLES
    JOBS,        \* the keys of the registry dict; JOBS[id] is the object job[id]
    job,         \* the job dict created for each id (it outlives its registry entry)
    issued,      \* the uuids drawn so far
    fs,          \* the working directory TEMP_ROOT / id of each id
    submitted,   \* the body proofread returned for each id
    uploaded,    \* the files of the request that drew each id
    cleanup_log, \* per id, how often cleanup_job was called and what it returned last
    pc,          \* the position of process_job(id) on its worker thread
    docx_paths,  \* process_job's argument
    idx,         \* process_job's loop index
    results,     \* process_job's local list
    exc,         \* the exception process_job is handling
    calls,       \* per task, whether its collaborator calls succeeded
    read_served  \* whether the last step was the event loop answering a read request

\* Everything but the mark of the last step.
program == <<JOBS, job, issued, fs, submitted, uploaded, cleanup_log, pc, docx_paths, idx, results, exc, calls>>

vars == <<program, read_served>>

NoJob == [status |-> "absent"]

\* A directory that does not exist.
NoDir == [dir |-> FALSE, uploads |-> {}, outdir |-> FALSE, out |-> {}, zip |-> None]

Init ==
    /\ JOBS = {}
    /\ job = [j \in JobIds |-> NoJob]
    /\ issued = {}
    /\ fs = [j \in JobIds |-> NoDir]
    /\ submitted = [j \in JobIds |-> None]
    /\ uploaded = [j \in JobIds |-> <<>>]
    /\ cleanup_log = [id \in NeverIssued \cup JobIds |-> [calls |-> "never", ret |-> FALSE]]
    /\ pc = [j \in JobIds |-> "none"]
    /\ docx_paths = [j \in JobIds |-> <<>>]
    /\ idx = [j \in JobIds |-> 0]
    /\ results = [j \in JobIds |-> <<>>]
    /\ exc = [j \in JobIds |-> None]
    /\ calls = [j \in JobIds |-> <<>>]
    /\ read_served = FALSE

\* ------------------------------------------------------------------ helpers
\* serialize_job_files: the public view of a job's file entries.
serialize_job_files(j) ==
    [i \in 1..Len(j.files) |->
        [id |-> j.files[i].id,
         name |-> j.files[i].name,
         status |-> j.files[i].status,
         download_url |-> j.files[i].download_url]]

\* The ids a caller can send: those a submission returned, and an unknown one.
KnownIds == NeverIssued \cup {j \in JobIds : job[j] # NoJob}

\* ------------------------------------------------------------------ submit
\* POST /proofread with a role that is no key of ROLES: 400, nothing changes.
proofread_bad_role(role) ==
    /\ role \notin ROLES
    /\ UNCHANGED vars

\* file_entries: one entry per kept path, ids from enumerate().
\* A plausible slip: ids counted from one.
FileEntriesFromOne(paths) ==
    [i \in 1..Len(paths) |->
        [id |-> i,
         name |-> paths[i],
         status |-> "queued",
         download_url |-> None,
         report_path |-> None]]

FileEntries(paths) ==
    [i \in 1..Len(paths) |->
        [id |-> i - 1,
         name |-> paths[i],
         status |-> "queued",
         download_url |-> None,
         report_path |-> None]]

\* The dict stored as JOBS[job_id].
JobRecord(role, paths) ==
    [status |-> "queued",
     files |-> FileEntries(paths),
     zip_path |-> None,
     error |-> None,
     role |-> role]

\* A plausible slip: process_job is begun inside the handler, before the response.
proofread_runs_inline(role, files) ==
    /\ role \in ROLES
    /\ read_served' = FALSE
    /\ \E job_id \in JobIds \ issued :
       LET paths == SelectSeq(files, IsDocx)
           record == JobRecord(role, paths)
       IN /\ issued' = issued \cup {job_id}
          /\ uploaded' = [uploaded EXCEPT ![job_id] = files]
          /\ fs' = [fs EXCEPT ![job_id] =
                        [NoDir EXCEPT !.dir = TRUE,
                                      !.uploads = {paths[i] : i \in 1..Len(paths)}]]
          /\ \/ /\ paths = <<>>
                /\ UNCHANGED <<JOBS, job, submitted, pc, docx_paths, calls>>
             \/ /\ paths # <<>>
                /\ JOBS' = JOBS \cup {job_id}
                /\ job' = [job EXCEPT ![job_id] = record]
                /\ pc' = [pc EXCEPT ![job_id] = "mkdir"]
                /\ docx_paths' = [docx_paths EXCEPT ![job_id] = paths]
                /\ calls' = [calls EXCEPT ![job_id] = [i \in 1..Len(paths) |-> "pending"]]
                /\ submitted' = [submitted EXCEPT ![job_id] =
                                    Some([job_id |-> job_id,
                                          status |-> record.status,
                                          files |-> serialize_job_files(record)])]
          /\ UNCHANGED <<cleanup_log, idx, results, exc>>

\* POST /proofread: the upload directory is made, the .docx files are kept in
\* upload order, the job is registered and its pipeline scheduled; with no
\* .docx file the request is refused and the directory stays behind.
proofread(role, files) ==
    /\ role \in ROLES
    /\ read_served' = FALSE
    /\ \E job_id \in JobIds \ issued :
       LET paths == SelectSeq(files, IsDocx)
           record == JobRecord(role, paths)
       IN /\ issued' = issued \cup {job_id}
          /\ uploaded' = [uploaded EXCEPT ![job_id] = files]
          /\ fs' = [fs EXCEPT ![job_id] =
                        [NoDir EXCEPT !.dir = TRUE,
                                      !.uploads = {paths[i] : i \in 1..Len(paths)}]]
          /\ \/ /\ paths = <<>>
                /\ UNCHANGED <<JOBS, job, submitted, pc, docx_paths, calls>>
             \/ /\ paths # <<>>
                /\ JOBS' = JOBS \cup {job_id}
                /\ job' = [job EXCEPT ![job_id] = record]
                /\ pc' = [pc EXCEPT ![job_id] = "scheduled"]
                /\ docx_paths' = [docx_paths EXCEPT ![job_id] = paths]
                /\ calls' = [calls EXCEPT ![job_id] = [i \in 1..Len(paths) |-> "pending"]]
                /\ submitted' = [submitted EXCEPT ![job_id] =
                                    Some([job_id |-> job_id,
                                          status |-> record.status,
                                          files |-> serialize_job_files(record)])]
          /\ UNCHANGED <<cleanup_log, idx, results, exc>>

\* ------------------------------------------------------------------ paths
\* str(path) of a path under TEMP_ROOT / job_id, as its components.
OutputPath(job_id, file) == <<"tmp", "proofreader", job_id, "output", file>>
ZipPath(job_id) == <<"tmp", "proofreader", job_id, "proofread_results.zip">>

\* bool(x) of an optional path string.
TruthyPath(x) == x.some /\ x.val # <<>>

\* f"{Path(filename).stem}_PROOFREAD.docx"
PerFileReport(name) == [stem |-> name.stem, suffix |-> "_PROOFREAD.docx"]

\* The three aggregate files save_reports writes.
AggregateReports ==
    { [stem |-> "results", suffix |-> ".json"],
      [stem |-> "summary", suffix |-> ".csv"],
      [stem |-> "PROOFREADING_REPORT", suffix |-> ".docx"] }

\* ------------------------------------------------------------------ reads
\* GET /queue/{job_id}
queue_status(job_id) ==
    IF job_id \notin JOBS
    THEN HTTPException(404, "Job not found")
    ELSE [code |-> 200,
          job_id |-> job_id,
          status |-> job[job_id].status,
          files |-> serialize_job_files(job[job_id]),
          download_ready |-> TruthyPath(job[job_id].zip_path),
          error |-> job[job_id].error]

\* GET /queue/{job_id}/download
download_results(job_id) ==
    IF job_id \notin JOBS
    THEN HTTPException(404, "Job not found")
    ELSE IF job[job_id].status # "complete" \/ ~TruthyPath(job[job_id].zip_path)
    THEN HTTPException(400, "Job is still processing")
    ELSE [code |-> 200, path |-> job[job_id].zip_path.val]

\* A plausible slip: the handler checks the status and not the report path.
download_single_file_status_only(job_id, file_id) ==
    IF job_id \notin JOBS
    THEN HTTPException(404, "Job not found")
    ELSE LET found == {i \in 1..Len(job[job_id].files) : job[job_id].files[i].id = file_id}
         IN IF found = {}
            THEN HTTPException(404, "File not found")
            ELSE LET file_entry == job[job_id].files[CHOOSE i \in found : \A k \in found : i <= k]
                 IN IF file_entry.status # "complete"
                    THEN HTTPException(400, "File is not ready for download")
                    ELSE [code |-> 200, path |-> <<>>]

\* GET /queue/{job_id}/files/{file_id}
download_single_file(job_id, file_id) ==
    IF job_id \notin JOBS
    THEN HTTPException(404, "Job not found")
    ELSE LET found == {i \in 1..Len(job[job_id].files) : job[job_id].files[i].id = file_id}
         IN IF found = {}
            THEN HTTPException(404, "File not found")
            ELSE LET file_entry == job[job_id].files[CHOOSE i \in found : \A k \in found : i <= k]
                     report_path == file_entry.report_path
                 IN IF file_entry.status # "complete" \/ ~TruthyPath(report_path)
                    THEN HTTPException(400, "File is not ready for download")
                    ELSE IF ~(fs[job_id].outdir /\ report_path.val[5] \in fs[job_id].out)
                    THEN HTTPException(404, "Report file missing")
                    ELSE [code |-> 200, path |-> report_path.val]

\* The file ids a caller asks for: every index an upload can have, and one past.
FileIds == 0..MaxFiles

\* The three read handlers answer from the state as it is: JOBS.get and
\* dict.get read, and no statement of the handlers assigns.
\* A plausible slip: the poll hands the error over once, job.pop("error", None).
queue_status_request_pops_error(job_id) ==
    /\ queue_status(job_id).code \in {200, 404}
    /\ read_served' = TRUE
    /\ job' = [j \in JobIds |-> IF j = job_id /\ j \in JOBS
                                 THEN [job[j] EXCEPT !.error = None]
                                 ELSE job[j]]
    /\ UNCHANGED <<JOBS, issued, fs, submitted, uploaded, cleanup_log, pc, docx_paths, idx, results, exc, calls>>

queue_status_request(job_id) ==
    /\ queue_status(job_id).code \in {200, 404}
    /\ read_served' = TRUE
    /\ UNCHANGED program

download_results_request(job_id) ==
    /\ download_results(job_id).code \in {200, 400, 404}
    /\ read_served' = TRUE
    /\ UNCHANGED program

download_single_file_request(job_id, file_id) ==
    /\ download_single_file(job_id, file_id).code \in {200, 400, 404}
    /\ read_served' = TRUE
    /\ UNCHANGED program

\* ------------------------------------------------------------------ cleanup
\* What cleanup_job(job_id) returns in the current state: job_present or dir_exists.
cleanup_job_result(job_id) ==
    \/ job_id \in JOBS
    \/ job_id \in JobIds /\ fs[job_id].dir

\* cleanup_job: pop the registry entry, remove the working directory.
cleanup_job(job_id) ==
    /\ read_served' = FALSE
    /\ JOBS' = JOBS \ {job_id}
    /\ fs' = [j \in JobIds |-> IF j = job_id /\ fs[j].dir THEN NoDir ELSE fs[j]]
    /\ cleanup_log' = [cleanup_log EXCEPT ![job_id] =
           [calls |-> IF @.calls = "never" THEN "once" ELSE "again",
            ret |-> cleanup_job_result(job_id)]]
    /\ UNCHANGED <<job, issued, submitted, uploaded, pc, docx_paths, idx, results, exc, calls>>

\* ------------------------------------------------------------------ pipeline
Exception(m) == [msg |-> m]
\* str(e)
str(e) == e.msg

\* file_entry = job["files"][idx]
FileAt(j) == idx[j] + 1

\* The for loop moves to the next path, or leaves the loop.
NextFile(j) ==
    IF idx[j] + 1 < Len(docx_paths[j])
    THEN /\ idx' = [idx EXCEPT ![j] = idx[j] + 1]
         /\ pc' = [pc EXCEPT ![j] = "file_status"]
    ELSE /\ idx' = idx
         /\ pc' = [pc EXCEPT ![j] = "save_reports"]

\* An exception leaves the try block of the current file.
Raise(j, m) ==
    /\ exc' = [exc EXCEPT ![j] = Some(Exception(m))]
    /\ calls' = [calls EXCEPT ![j][FileAt(j)] = "failed"]
    /\ pc' = [pc EXCEPT ![j] = "except"]

\* asyncio.create_task(asyncio.to_thread(process_job, ...)): the task runs after
\* the handler returned, and handing process_job to the executor raises when no
\* thread can be started. Nothing awaits the task, so process_job never runs.
to_thread_fails(j) ==
    /\ pc[j] = "scheduled"
    /\ pc' = [pc EXCEPT ![j] = "not_started"]
    /\ read_served' = FALSE
    /\ UNCHANGED <<JOBS, job, issued, fs, submitted, uploaded, cleanup_log, docx_paths, idx, results, exc, calls>>

\* job = JOBS.get(job_id); if not job: return
PJ_Lookup(j) ==
    /\ pc[j] = "scheduled"
    /\ read_served' = FALSE
    /\ pc' = [pc EXCEPT ![j] = IF j \in JOBS THEN "mkdir" ELSE "done"]
    /\ UNCHANGED <<JOBS, job, issued, fs, submitted, uploaded, cleanup_log, docx_paths, idx, results, exc, calls>>

\* output_dir.mkdir(parents=True, exist_ok=True); results = []
PJ_MkOutput(j) ==
    /\ pc[j] = "mkdir"
    /\ read_served' = FALSE
    /\ fs' = [fs EXCEPT ![j].dir = TRUE, ![j].outdir = TRUE]
    /\ results' = [results EXCEPT ![j] = <<>>]
    /\ pc' = [pc EXCEPT ![j] = "set_processing"]
    /\ UNCHANGED <<JOBS, job, issued, submitted, uploaded, cleanup_log, docx_paths, idx, exc, calls>>

\* A plausible slip: every entry is marked processing when the job is.
PJ_SetProcessing_MarksAll(j) ==
    /\ pc[j] = "set_processing"
    /\ read_served' = FALSE
    /\ job' = [job EXCEPT ![j].status = "processing",
                          ![j].files = [i \in 1..Len(@) |-> [@[i] EXCEPT !.status = "processing"]]]
    /\ idx' = [idx EXCEPT ![j] = 0]
    /\ pc' = [pc EXCEPT ![j] = "file_status"]
    /\ UNCHANGED <<JOBS, issued, fs, submitted, uploaded, cleanup_log, docx_paths, results, exc, calls>>

\* job["status"] = "processing"; the loop starts at the first path
PJ_SetProcessing(j) ==
    /\ pc[j] = "set_processing"
    /\ read_served' = FALSE
    /\ job' = [job EXCEPT ![j].status = "processing"]
    /\ idx' = [idx EXCEPT ![j] = 0]
    /\ pc' = [pc EXCEPT ![j] = "file_status"]
    /\ UNCHANGED <<JOBS, issued, fs, submitted, uploaded, cleanup_log, docx_paths, results, exc, calls>>

\* A plausible slip: file_entry = job["files"][0] on every round of the loop.
PJ_FileProcessing_FirstEntry(j) ==
    /\ pc[j] = "file_status"
    /\ read_served' = FALSE
    /\ job' = [job EXCEPT ![j].files[1].status = "processing"]
    /\ pc' = [pc EXCEPT ![j] = "clear_url"]
    /\ UNCHANGED <<JOBS, issued, fs, submitted, uploaded, cleanup_log, docx_paths, idx, results, exc, calls>>

\* file_entry["status"] = "processing"
PJ_FileProcessing(j) ==
    /\ pc[j] = "file_status"
    /\ read_served' = FALSE
    /\ job' = [job EXCEPT ![j].files[FileAt(j)].status = "processing"]
    /\ pc' = [pc EXCEPT ![j] = "clear_url"]
    /\ UNCHANGED <<JOBS, issued, fs, submitted, uploaded, cleanup_log, docx_paths, idx, results, exc, calls>>

\* file_entry["download_url"] = None
PJ_ClearUrl(j) ==
    /\ pc[j] = "clear_url"
    /\ read_served' = FALSE
    /\ job' = [job EXCEPT ![j].files[FileAt(j)].download_url = None]
    /\ pc' = [pc EXCEPT ![j] = "clear_report"]
    /\ UNCHANGED <<JOBS, issued, fs, submitted, uploaded, cleanup_log, docx_paths, idx, results, exc, calls>>

\* file_entry["report_path"] = None
PJ_ClearReport(j) ==
    /\ pc[j] = "clear_report"
    /\ read_served' = FALSE
    /\ job' = [job EXCEPT ![j].files[FileAt(j)].report_path = None]
    /\ pc' = [pc EXCEPT ![j] = "extract"]
    /\ UNCHANGED <<JOBS, issued, fs, submitted, uploaded, cleanup_log, docx_paths, idx, results, exc, calls>>

\* text = extract_text(path): Document(path) raises when the upload is gone,
\* and can raise on a file it cannot read.
PJ_Extract(j) ==
    /\ pc[j] = "extract"
    /\ read_served' = FALSE
    /\ IF docx_paths[j][FileAt(j)] \notin fs[j].uploads
       THEN Raise(j, MissingMsg)
       ELSE \/ /\ pc' = [pc EXCEPT ![j] = "call_grok"]
               /\ UNCHANGED <<exc, calls>>
            \/ \E m \in ExcMessages : Raise(j, m)
    /\ UNCHANGED <<JOBS, job, issued, fs, submitted, uploaded, cleanup_log, docx_paths, idx, results>>

\* structured = call_grok(...); result_payload = {...}; results.append(result_payload)
PJ_CallGrok(j) ==
    /\ pc[j] = "call_grok"
    /\ read_served' = FALSE
    /\ \/ /\ results' = [results EXCEPT ![j] =
                            Append(@, [filename |-> docx_paths[j][FileAt(j)],
                                       fallback |-> FALSE])]
          /\ pc' = [pc EXCEPT ![j] = "save_single"]
          /\ UNCHANGED <<exc, calls>>
       \/ /\ \E m \in ExcMessages : Raise(j, m)
          /\ UNCHANGED results
    /\ UNCHANGED <<JOBS, job, issued, fs, submitted, uploaded, cleanup_log, docx_paths, idx>>

\* report_path = save_single_report(result_payload, output_dir): the per-file
\* report is written into the output directory, or the write raises. When the
\* directory is gone the call either raises or makes it again, as save_reports does.
PJ_SaveSingle(j) ==
    /\ pc[j] = "save_single"
    /\ read_served' = FALSE
    /\ \/ /\ fs' = [fs EXCEPT ![j].dir = TRUE, ![j].outdir = TRUE,
                              ![j].out = @ \cup {PerFileReport(docx_paths[j][FileAt(j)])}]
          /\ calls' = [calls EXCEPT ![j][FileAt(j)] = "ok"]
          /\ pc' = [pc EXCEPT ![j] = "set_complete"]
          /\ UNCHANGED exc
       \/ /\ \E m \in ExcMessages : Raise(j, m)
          /\ UNCHANGED fs
       \/ /\ ~fs[j].outdir
          /\ Raise(j, MissingMsg)
          /\ UNCHANGED fs
    /\ UNCHANGED <<JOBS, job, issued, submitted, uploaded, cleanup_log, docx_paths, idx, results>>

\* file_entry["status"] = "complete"
PJ_SetComplete(j) ==
    /\ pc[j] = "set_complete"
    /\ read_served' = FALSE
    /\ job' = [job EXCEPT ![j].files[FileAt(j)].status = "complete"]
    /\ pc' = [pc EXCEPT ![j] = "set_report_path"]
    /\ UNCHANGED <<JOBS, issued, fs, submitted, uploaded, cleanup_log, docx_paths, idx, results, exc, calls>>

\* file_entry["report_path"] = str(report_path)
PJ_SetReportPath(j) ==
    /\ pc[j] = "set_report_path"
    /\ read_served' = FALSE
    /\ job' = [job EXCEPT ![j].files[FileAt(j)].report_path =
                  Some(OutputPath(j, PerFileReport(docx_paths[j][FileAt(j)])))]
    /\ pc' = [pc EXCEPT ![j] = "set_download_url"]
    /\ UNCHANGED <<JOBS, issued, fs, submitted, uploaded, cleanup_log, docx_paths, idx, results, exc, calls>>

\* file_entry["download_url"] = f"/queue/{job_id}/files/{file_entry['id']}"
PJ_SetDownloadUrl(j) ==
    /\ pc[j] = "set_download_url"
    /\ read_served' = FALSE
    /\ job' = [job EXCEPT ![j].files[FileAt(j)].download_url =
                  Some(<<"queue", j, "files", job[j].files[FileAt(j)].id>>)]
    /\ NextFile(j)
    /\ UNCHANGED <<JOBS, issued, fs, submitted, uploaded, cleanup_log, docx_paths, results, exc, calls>>

\* except Exception as e: file_entry["status"] = "error"
PJ_Except(j) ==
    /\ pc[j] = "except"
    /\ read_served' = FALSE
    /\ job' = [job EXCEPT ![j].files[FileAt(j)].status = "error"]
    /\ pc' = [pc EXCEPT ![j] = "set_error"]
    /\ UNCHANGED <<JOBS, issued, fs, submitted, uploaded, cleanup_log, docx_paths, idx, results, exc, calls>>

\* A plausible slip: the except block ends the loop (a break, or a re-raise
\* caught around the loop).
PJ_SetError_Break(j) ==
    /\ pc[j] = "set_error"
    /\ read_served' = FALSE
    /\ job' = [job EXCEPT ![j].error = Some(str(exc[j].val))]
    /\ results' = [results EXCEPT ![j] =
                      Append(@, [filename |-> docx_paths[j][FileAt(j)], fallback |-> TRUE])]
    /\ exc' = [exc EXCEPT ![j] = None]
    /\ idx' = idx
    /\ pc' = [pc EXCEPT ![j] = "save_reports"]
    /\ UNCHANGED <<JOBS, issued, fs, submitted, uploaded, cleanup_log, docx_paths, calls>>

\* job["error"] = str(e); results.append({... fallback ...})
PJ_SetError(j) ==
    /\ pc[j] = "set_error"
    /\ read_served' = FALSE
    /\ job' = [job EXCEPT ![j].error = Some(str(exc[j].val))]
    /\ results' = [results EXCEPT ![j] =
                      Append(@, [filename |-> docx_paths[j][FileAt(j)], fallback |-> TRUE])]
    /\ exc' = [exc EXCEPT ![j] = None]
    /\ NextFile(j)
    /\ UNCHANGED <<JOBS, issued, fs, submitted, uploaded, cleanup_log, docx_paths, calls>>

\* save_reports(results, output_dir): the directory is made (again), the
\* aggregate files and one report per result are written; a write can raise,
\* and nothing in process_job catches it.
PJ_SaveReports(j) ==
    /\ pc[j] = "save_reports"
    /\ read_served' = FALSE
    /\ \/ /\ fs' = [fs EXCEPT ![j].dir = TRUE, ![j].outdir = TRUE,
                              ![j].out = @ \cup AggregateReports \cup
                                  {PerFileReport(results[j][i].filename) :
                                      i \in 1..Len(results[j])}]
          /\ pc' = [pc EXCEPT ![j] = "zip"]
       \/ /\ fs' = [fs EXCEPT ![j].dir = TRUE, ![j].outdir = TRUE]
          /\ pc' = [pc EXCEPT ![j] = "raised"]
    /\ UNCHANGED <<JOBS, job, issued, submitted, uploaded, cleanup_log, docx_paths, idx, results, exc, calls>>

\* with zipfile.ZipFile(zip_path, "w") as zf: one entry per file of output_dir.
\* Opening the archive raises when the job directory is gone, iterdir when the
\* output directory is.
PJ_Zip(j) ==
    /\ pc[j] = "zip"
    /\ read_served' = FALSE
    /\ IF ~fs[j].dir
       THEN /\ pc' = [pc EXCEPT ![j] = "raised"]
            /\ UNCHANGED fs
       ELSE IF ~fs[j].outdir
       THEN /\ pc' = [pc EXCEPT ![j] = "raised"]
            /\ fs' = [fs EXCEPT ![j].zip = Some({})]
       ELSE /\ pc' = [pc EXCEPT ![j] = "set_zip_path"]
            /\ fs' = [fs EXCEPT ![j].zip = Some(fs[j].out)]
    /\ UNCHANGED <<JOBS, job, issued, submitted, uploaded, cleanup_log, docx_paths, idx, results, exc, calls>>

\* A plausible slip: the job is marked complete with the archive, and failed after.
PJ_SetZipPath_MarksComplete(j) ==
    /\ pc[j] = "set_zip_path"
    /\ read_served' = FALSE
    /\ job' = [job EXCEPT ![j].zip_path = Some(ZipPath(j)), ![j].status = "complete"]
    /\ pc' = [pc EXCEPT ![j] = "set_status"]
    /\ UNCHANGED <<JOBS, issued, fs, submitted, uploaded, cleanup_log, docx_paths, idx, results, exc, calls>>

\* job["zip_path"] = str(zip_path)
PJ_SetZipPath(j) ==
    /\ pc[j] = "set_zip_path"
    /\ read_served' = FALSE
    /\ job' = [job EXCEPT ![j].zip_path = Some(ZipPath(j))]
    /\ pc' = [pc EXCEPT ![j] = "set_status"]
    /\ UNCHANGED <<JOBS, issued, fs, submitted, uploaded, cleanup_log, docx_paths, idx, results, exc, calls>>

\* A plausible slip: the finished record is stored back, JOBS[job_id] = job.
PJ_SetFinalStatus_StoreBack(j) ==
    /\ pc[j] = "set_status"
    /\ read_served' = FALSE
    /\ job' = [job EXCEPT ![j].status =
                  IF ~Truthy(job[j].error) THEN "complete" ELSE "failed"]
    /\ JOBS' = JOBS \cup {j}
    /\ pc' = [pc EXCEPT ![j] = "done"]
    /\ UNCHANGED <<issued, fs, submitted, uploaded, cleanup_log, docx_paths, idx, results, exc, calls>>

\* job["status"] = "complete" if not job.get("error") else "failed"
PJ_SetFinalStatus(j) ==
    /\ pc[j] = "set_status"
    /\ read_served' = FALSE
    /\ job' = [job EXCEPT ![j].status =
                  IF ~Truthy(job[j].error) THEN "complete" ELSE "failed"]
    /\ pc' = [pc EXCEPT ![j] = "done"]
    /\ UNCHANGED <<JOBS, issued, fs, submitted, uploaded, cleanup_log, docx_paths, idx, results, exc, calls>>

\* One statement of process_job(j) on its worker thread.
process_job(j) ==
    \/ PJ_Lookup(j)
    \/ PJ_MkOutput(j)
    \/ PJ_SetProcessing(j)
    \/ PJ_FileProcessing(j)
    \/ PJ_ClearUrl(j)
    \/ PJ_ClearReport(j)
    \/ PJ_Extract(j)
    \/ PJ_CallGrok(j)
    \/ PJ_SaveSingle(j)
    \/ PJ_SetComplete(j)
    \/ PJ_SetReportPath(j)
    \/ PJ_SetDownloadUrl(j)
    \/ PJ_Except(j)
    \/ PJ_SetError(j)
    \/ PJ_SaveReports(j)
    \/ PJ_Zip(j)
    \/ PJ_SetZipPath(j)
    \/ PJ_SetFinalStatus(j)

Next ==
    \/ \E role \in RoleInputs : proofread_bad_role(role)
    \/ \E role \in RoleInputs, files \in Uploads : proofread(role, files)
    \/ \E job_id \in KnownIds : queue_status_request(job_id)
    \/ \E job_id \in KnownIds : download_results_request(job_id)
    \/ \E job_id \in KnownIds, file_id \in FileIds : download_single_file_request(job_id, file_id)
    \/ \E job_id \in KnownIds : cleanup_job(job_id)
    \/ \E j \in JobIds : to_thread_fails(j)
    \/ \E j \in JobIds : process_job(j)

Spec == Init /\ [][Next]_vars

\* The worker thread of every job is scheduled again and again (a thread of the
\* default executor), and every collaborator call returns or raises (the HTTP
\* call carries a timeout).
LiveSpec == Init /\ [][Next]_vars /\ \A j \in JobIds : WF_vars(process_job(j))

\* ------------------------------------------------------------------ claims
Terminal == {"complete", "error"}

\* A job that was registered and whose registry entry is gone.
Removed(j) == job[j] # NoJob /\ j \notin JOBS

\* One step of the task state machine queued -> processing -> {complete, error}.
TaskStep(a, b) ==
    \/ a = b
    \/ a = "queued" /\ b = "processing"
    \/ a = "processing" /\ b \in Terminal

\* C1: in every step of every interleaving, a task is created queued and its
\* status then only moves queued -> processing -> complete or error; nothing
\* leaves complete or error.
C1_TaskStatusMonotonic ==
    [][\A j \in JobIds :
         /\ job[j] = NoJob /\ job'[j] # NoJob =>
                \A i \in 1..Len(job'[j].files) : job'[j].files[i].status = "queued"
         /\ job[j] # NoJob =>
                /\ job'[j] # NoJob
                /\ Len(job'[j].files) = Len(job[j].files)
                /\ \A i \in 1..Len(job[j].files) :
                      TaskStep(job[j].files[i].status, job'[j].files[i].status)]_vars

\* C1 witness: one job holds a task that ended complete and one that ended error.
C1_Witness ==
    \E j \in JobIds :
        /\ job[j] # NoJob
        /\ \E i, k \in 1..Len(job[j].files) :
              job[j].files[i].status = "complete" /\ job[j].files[k].status = "error"

\* C2: once process_job has set the final status, it is failed exactly when
\* some task of the job is in status error, whatever the exception's message.
C2_FailedIffTaskError ==
    \A j \in JobIds :
        pc[j] = "done" /\ job[j] # NoJob /\ job[j].status \in {"complete", "failed"} =>
            (job[j].status = "failed" <=>
                \E i \in 1..Len(job[j].files) : job[j].files[i].status = "error")

\* C3: the step that draws an id for a request with N >= 1 .docx files
\* registers a job of N queued tasks, ids 0..N-1 in upload order, without
\* artifact references, job status queued, and returns exactly that.
C3_SubmitRegistersQueuedTasks ==
    [][\A j \in JobIds :
         LET accepted == SelectSeq(uploaded'[j], IsDocx)
             N == Len(accepted)
         IN j \notin issued /\ j \in issued' /\ N >= 1 =>
                /\ j \in JOBS'
                /\ job'[j] # NoJob
                /\ job'[j].status = "queued"
                /\ Len(job'[j].files) = N
                /\ \A i \in 1..N :
                      job'[j].files[i] =
                          [id |-> i - 1, name |-> accepted[i], status |-> "queued",
                           download_url |-> None, report_path |-> None]
                /\ submitted'[j] =
                      Some([job_id |-> j,
                            status |-> "queued",
                            files |-> [i \in 1..N |->
                                          [id |-> i - 1, name |-> accepted[i],
                                           status |-> "queued", download_url |-> None]]])]_vars

\* C3 witness: a request with two accepted files of different names was
\* answered with two entries.
C3_Witness ==
    \E j \in JobIds :
        /\ submitted[j].some
        /\ Len(submitted[j].val.files) >= 2
        /\ submitted[j].val.files[1].name # submitted[j].val.files[2].name

\* C4: per id, the first cleanup_job call on a registered job returns true,
\* every later call returns false, and a call on an id that was never
\* registered returns false, whatever the job's pipeline does in between.
C4_CleanupTrueThenFalse ==
    \A id \in NeverIssued \cup JobIds :
        /\ cleanup_log[id].calls = "again" => cleanup_log[id].ret = FALSE
        /\ cleanup_log[id].calls = "once" /\ id \in JobIds => cleanup_log[id].ret = TRUE
        /\ cleanup_log[id].calls # "never" /\ id \in NeverIssued => cleanup_log[id].ret = FALSE

\* The entry download_single_file addresses, or 0 when the job has none.
TaskIndex(job_id, file_id) ==
    IF \E i \in 1..Len(job[job_id].files) : job[job_id].files[i].id = file_id
    THEN CHOOSE i \in 1..Len(job[job_id].files) : job[job_id].files[i].id = file_id
    ELSE 0

\* C5: in every state, download_single_file answers with an artifact only for
\* a complete task whose report path is set (and with that path), with
\* not-ready (400) for a queued, processing or error task, and with
\* not-found (404) for an unknown job id or task id.
C5_SingleDownloadOnlyWhenComplete ==
    \A job_id \in NeverIssued \cup JobIds, file_id \in FileIds :
        LET r == download_single_file(job_id, file_id)
            known == job_id \in JOBS /\ TaskIndex(job_id, file_id) # 0
            t == job[job_id].files[TaskIndex(job_id, file_id)]
        IN /\ r.code = 200 =>
                 /\ known
                 /\ t.status = "complete"
                 /\ t.report_path.some
                 /\ r.path = t.report_path.val
           /\ known /\ t.status \in {"queued", "processing", "error"} => r.code = 400
           /\ ~known => r.code = 404

\* C5 witness: a download of one task succeeds while a sibling is not complete.
C5_Witness ==
    \E job_id \in JOBS :
        \E file_id, other \in FileIds :
            /\ download_single_file(job_id, file_id).code = 200
            /\ download_single_file(job_id, other).code = 400

\* C6: the aggregate download returns the archive for every job whose status
\* is complete or failed, and answers not-ready only for queued or processing.
C6_AggregateDownloadWhenTerminal ==
    \A job_id \in JOBS :
        LET r == download_results(job_id)
        IN /\ job[job_id].status \in {"complete", "failed"} =>
                 r.code = 200 /\ Some(r.path) = job[job_id].zip_path
           /\ r.code = 400 => job[job_id].status \in {"queued", "processing"}

\* C7: a poll for an id that is not in the registry is answered not-found,
\* and an id on which cleanup_job was called is in no later state in the registry.
C7_RemovedStaysNotFound ==
    /\ [](\A id \in NeverIssued \cup JobIds :
            id \notin JOBS => queue_status(id) = HTTPException(404, "Job not found"))
    /\ [][\A id \in JobIds : cleanup_log[id].calls # "never" => id \notin JOBS']_vars

\* C7 witness: the job was removed while its pipeline was in its loop, the
\* pipeline has since ended, and a poll is answered not-found.
C7_Witness ==
    \E j \in JobIds :
        /\ Removed(j)
        /\ pc[j] = "done"
        /\ job[j].status \in {"complete", "failed"}
        /\ queue_status(j).code = 404

\* C8: once a job is removed, no step changes its record (task statuses, job
\* status, error, archive reference), calls a collaborator for it, or ends
\* its pipeline with an exception.
C8_PipelineStopsAfterRemoval ==
    [][\A j \in JobIds :
         Removed(j) =>
            /\ job'[j] = job[j]
            /\ pc[j] \in {"extract", "call_grok", "save_single"} => pc'[j] = pc[j]
            /\ pc'[j] # "raised"]_vars

\* The loop of process_job(j) has finished with entry i.
LoopPast(j, i) ==
    \/ FileAt(j) > i
    \/ pc[j] \in {"save_reports", "zip", "set_zip_path", "set_status", "raised"}
    \/ pc[j] = "done" /\ job[j].status # "queued"

\* C9: a task that ended is complete exactly when its own collaborator calls
\* succeeded, whatever its siblings did, and every registered job whose
\* pipeline has started is either removed or comes to have all its tasks
\* complete or error.
C9_FailureIsolation ==
    /\ [](\A j \in JOBS : \A i \in 1..Len(job[j].files) :
            /\ job[j].files[i].status = "complete" => calls[j][i] = "ok"
            /\ job[j].files[i].status = "error" => calls[j][i] = "failed"
            /\ calls[j][i] = "ok" /\ LoopPast(j, i) => job[j].files[i].status = "complete")
    /\ \A j \in JobIds :
          (j \in JOBS /\ pc[j] = "mkdir") ~>
              (j \notin JOBS \/ \A i \in 1..Len(job[j].files) : job[j].files[i].status \in Terminal)

\* C9 witness: in a job that was not removed, the first task failed and the
\* one after it ended complete.
C9_Witness ==
    \E j \in JOBS :
        /\ Len(job[j].files) >= 2
        /\ job[j].files[1].status = "error"
        /\ job[j].files[2].status = "complete"

\* C10: when packaging raised in a job that is still registered, the job is
\* failed, its error field holds a diagnostic and it has no archive reference.
C10_PackagingFailureFailsJob ==
    \A j \in JOBS :
        pc[j] = "raised" =>
            /\ job[j].status = "failed"
            /\ job[j].error.some
            /\ job[j].zip_path = None

\* C11: once cleanup_job was called on an id, the working directory of that
\* id does not exist, in every later state.
C11_DirectoryStaysRemoved ==
    \A id \in JobIds : cleanup_log[id].calls # "never" => ~fs[id].dir

\* C12: the archive of a registered job of N tasks holds N + 1 entries, one
\* per task and one aggregate report.
C12_ArchiveHoldsNPlusOne ==
    \A j \in JOBS :
        pc[j] \in {"set_zip_path", "set_status", "done"} /\ fs[j].zip.some =>
            Cardinality(fs[j].zip.val) = Len(job[j].files) + 1

\* C13: in every state a poll can see, a task's report path, and with it its
\* download url, is set exactly when the task's status is complete.
C13_ArtifactIffComplete ==
    \A j \in JOBS : \A i \in 1..Len(job[j].files) :
        /\ job[j].files[i].report_path.some <=> job[j].files[i].status = "complete"
        /\ queue_status(j).files[i].download_url.some <=> job[j].files[i].status = "complete"

\* C14: in every state a poll can see, download_ready is false while the
\* job's status is queued or processing.
C14_ArchiveOnlyWhenTerminal ==
    \A j \in JOBS :
        /\ queue_status(j).status \in {"queued", "processing"} => ~queue_status(j).download_ready
        /\ job[j].zip_path.some => job[j].status \in {"complete", "failed"}

\* One step of the job state machine queued -> processing -> {complete, failed}.
JobStep(a, b) ==
    \/ a = b
    \/ a = "queued" /\ b = "processing"
    \/ a = "processing" /\ b \in {"complete", "failed"}

\* C15: a job is created queued and its status then only moves
\* queued -> processing -> complete or failed; nothing leaves complete or failed.
C15_JobStatusMonotonic ==
    [][\A j \in JobIds :
         /\ job[j] = NoJob /\ job'[j] # NoJob => job'[j].status = "queued"
         /\ job[j] # NoJob => job'[j] # NoJob /\ JobStep(job[j].status, job'[j].status)]_vars

\* C15 witness: a job went all the way to failed and its pipeline has ended.
C15_Witness ==
    \E j \in JobIds : job[j] # NoJob /\ job[j].status = "failed" /\ pc[j] = "done"

\* C16: a task has left queued only if the task before it is complete or
\* error, and at most one task of a job is processing.
C16_OneFileAtATime ==
    \A j \in JobIds :
        job[j] # NoJob =>
            /\ \A i \in 1..(Len(job[j].files) - 1) :
                  job[j].files[i + 1].status # "queued" => job[j].files[i].status \in Terminal
            /\ Cardinality({i \in 1..Len(job[j].files) : job[j].files[i].status = "processing"}) <= 1

\* C16 witness: the first task has ended and the second is being processed.
C16_Witness ==
    \E j \in JobIds :
        /\ job[j] # NoJob
        /\ Len(job[j].files) >= 2
        /\ job[j].files[1].status \in Terminal
        /\ job[j].files[2].status = "processing"

\* C17: process_job is scheduled in the step that stores the record and
\* returns the response, before any of its statements has run, and a
\* pipeline that has been scheduled or has begun is never scheduled again.
C17_OnePipelinePerJob ==
    [][\A j \in JobIds :
         /\ job[j] = NoJob /\ job'[j] # NoJob =>
                /\ pc[j] = "none" /\ pc'[j] = "scheduled"
                /\ j \in JOBS'
                /\ submitted'[j].some
         /\ pc[j] = "none" /\ pc'[j] # "none" => job'[j] # NoJob /\ pc'[j] = "scheduled"
         /\ pc[j] # "none" => pc'[j] # "none"
         /\ pc[j] \notin {"none", "scheduled"} => pc'[j] # "scheduled"]_vars

\* C17 witness: the response was returned and the pipeline has since run to its end.
C17_Witness ==
    \E j \in JobIds : submitted[j].some /\ pc[j] = "done" /\ j \in JOBS

\* C18: a registered job whose pipeline could not be started is failed and
\* its error field holds a diagnostic.
C18_SchedulingFailureFailsJob ==
    \A j \in JOBS :
        pc[j] = "not_started" => job[j].status = "failed" /\ job[j].error.some

\* C19: a step in which the event loop answers a poll, an aggregate download
\* or a single-file download changes neither the registry nor any record,
\* directory or pipeline.
C19_ReadsChangeNothing ==
    [][read_served' => UNCHANGED program]_vars

\* C19 witness: a read was answered while a job was processing, when the
\* aggregate download is not ready and a poll of an unknown id is not found.
C19_Witness ==
    /\ read_served
    /\ \E j \in JOBS :
          /\ job[j].status = "processing"
          /\ download_results(j).code = 400
    /\ \E id \in NeverIssued : queue_status(id).code = 404

\* C20: a job whose status is complete or failed has every task complete or error.
C20_TerminalJobHasTerminalTasks ==
    \A j \in JobIds :
        job[j] # NoJob /\ job[j].status \in {"complete", "failed"} =>
            \A i \in 1..Len(job[j].files) : job[j].files[i].status \in Terminal

\* C20 witness: a job of two tasks ended, one task complete and one error.
C20_Witness ==
    \E j \in JobIds :
        /\ job[j] # NoJob
        /\ job[j].status \in {"complete", "failed"}
        /\ Len(job[j].files) >= 2
        /\ job[j].files[1].status = "complete"
        /\ job[j].files[2].status = "error"
====
